---- MODULE Spec2Model ----
(***************************************************************************)
(* Model of tracker.py: a Streamlit script that keeps a habit log in a     *)
(* Google Sheet.  Every script run loads the whole log (through a 5 second *)
(* cache), lets at most one widget handler change the in-memory dataframe, *)
(* writes the whole dataframe back and reruns.                             *)
(*                                                                         *)
(* Dates are day numbers: str(date) is injective and timedelta(days=1) is  *)
(* "minus one", so the ISO string of a date is represented by its number.  *)
(* An empty sheet cell and the empty string are both written "".           *)
(***************************************************************************)
EXTENDS Integers, Sequences, FiniteSets, TLC

\* ------------------------------------------------------------------ bounds
MaxDay == 1          \* calendar days are 0..MaxDay
MaxRows == 3         \* the log holds at most MaxRows rows
MaxMood == 1         \* mood keys offered by the selectbox are 0..MaxMood
MaxStreakDay == 3    \* calendar days of the streak specification are 0..MaxStreakDay
MaxWindow == 2       \* heatmap windows of 1..MaxWindow days are examined
MaxBadgeDay == 91    \* calendar days of the badge specification are 0..MaxBadgeDay

Dates == 0..MaxDay
HabitInputs == {"", "Run", "Mood_Entry"}   \* texts typed into "Habit Name:"
Texts == {"", "win"}                       \* texts typed into the reflection area

\* ------------------------------------------------------- program constants
UNSELECTED_MOOD_KEY == 0
MoodEntry == "Mood_Entry"
MoodKeys == {UNSELECTED_MOOD_KEY} \cup 1..MaxMood
REQUIRED_COLUMNS == {"Date", "Habit", "Status", "Is_Active", "Daily_Reflection", "Mood"}
BADGE_TIERS ==
  (1 :> "New Start") @@ (7 :> "Bronze Star") @@ (30 :> "Silver Champion") @@
  (90 :> "Gold Titan")
NoStreak == "No Streak"

\* sheet  the rows of the "TrackingLog" worksheet, in order
\* cache  the entry st.cache_data holds for load_data
\* today  date.today()
\* last   how the latest step ended: "saved" / "deleted" (save_data wrote the
\*        frame), "failed" (conn.write raised), "rejected" (Add Habit refused
\*        the name), "unsaved" (the reflection had no row to go to), "none"
VARIABLES sheet, cache, today, last

vars == <<sheet, cache, today, last>>

\* A row of the dataframe, in the order of REQUIRED_COLUMNS.
Row(d, h, s, a, r, m) ==
  [Date |-> d, Habit |-> h, Status |-> s, Is_Active |-> a,
   Daily_Reflection |-> r, Mood |-> m]

EmptyLog == << >>

\* ----------------------------------------------------------- pure helpers
\* Series.unique(): the distinct values in the order of their first appearance.
RECURSIVE Unique(_)
Unique(s) ==
  IF s = << >> THEN << >>
  ELSE LET later(x) == x # Head(s)
       IN <<Head(s)>> \o Unique(SelectSeq(Tail(s), later))

Elems(s) == {s[i] : i \in DOMAIN s}

IsActiveRow(r) == r.Is_Active = TRUE

get_active_habits(d0) ==
  IF d0 = << >> THEN << >>
  ELSE LET act == SelectSeq(d0, IsActiveRow)
       IN Unique([i \in DOMAIN act |-> act[i].Habit])

get_all_habits(d0) ==
  IF d0 = << >> THEN << >>
  ELSE Unique([i \in DOMAIN d0 |-> d0[i].Habit])

completed_dates(d0, habit_name) ==
  {d0[i].Date : i \in {j \in DOMAIN d0 : d0[j].Habit = habit_name /\ d0[j].Status = TRUE}}

\* Faulty variant of StreakWalk: every completed date up to check_date is
\* counted, the walk does not stop at the first gap.
StreakWalk_NoGap(done, check_date) ==
  Cardinality({d \in done : d <= check_date})

RECURSIVE StreakWalk(_, _)
StreakWalk(done, check_date) ==
  IF check_date \in done THEN 1 + StreakWalk(done, check_date - 1) ELSE 0

\* Faulty variant of calculate_streak: the walk always starts at today, so an
\* unmarked today zeroes the streak.
calculate_streak_NoGrace(d0, habit_name, td) ==
  LET done == completed_dates(d0, habit_name)
  IN IF Cardinality(done) = 0 THEN 0 ELSE StreakWalk(done, td)

calculate_streak(d0, habit_name, td) ==
  LET done == completed_dates(d0, habit_name)
  IN IF Cardinality(done) = 0 THEN 0
     ELSE StreakWalk(done, IF td \in done THEN td ELSE td - 1)

\* sorted(BADGE_TIERS.keys(), reverse=True)
RECURSIVE sorted_reverse(_)
sorted_reverse(keys) ==
  IF keys = {} THEN << >>
  ELSE LET top == CHOOSE t \in keys : \A u \in keys : u <= t
       IN <<top>> \o sorted_reverse(keys \ {top})

\* The for loop of get_badge: the label of the first threshold that the streak
\* reaches, "" when it reaches none.
RECURSIVE first_reached(_, _)
first_reached(streak, thresholds) ==
  IF thresholds = << >> THEN ""
  ELSE IF streak >= Head(thresholds) THEN BADGE_TIERS[Head(thresholds)]
       ELSE first_reached(streak, Tail(thresholds))

\* Faulty variant of get_badge: the thresholds are tried lowest first.
get_badge_LowestFirst(streak) ==
  IF streak = 0 THEN <<NoStreak>>
  ELSE <<BADGE_TIERS[CHOOSE t \in DOMAIN BADGE_TIERS :
                       \A u \in DOMAIN BADGE_TIERS : t <= u], streak>>

\* get_badge returns the text "<label> (<streak> Days)", written <<label, streak>>
\* here, and the text of the no-streak label, written <<NoStreak>>.
get_badge(streak) ==
  IF streak = 0 THEN <<NoStreak>>
  ELSE <<first_reached(streak, sorted_reverse(DOMAIN BADGE_TIERS)), streak>>

\* create_heatmap_plotly up to the series it plots (df_plot's Date and Count).
\* The source fixes the window at 365 days; the window is a parameter here.
\* With no completed row of the habit nothing is plotted and the function
\* returns None; otherwise the series runs over full_range, the dates from
\* today - window_days to today, both included.
heatmap_data(d0, habit_name) ==
  {i \in DOMAIN d0 : d0[i].Habit = habit_name /\ d0[i].Status = TRUE}

successes(d0, habit_name, day) ==
  Cardinality({i \in heatmap_data(d0, habit_name) : d0[i].Date = day})

create_heatmap_plotly(d0, habit_name, td, window_days) ==
  IF heatmap_data(d0, habit_name) = {}
  THEN [plotted |-> FALSE, df_plot |-> << >>]
  ELSE LET start_date == td - window_days
       IN [plotted |-> TRUE,
           df_plot |-> [k \in 1..(td - start_date + 1) |->
                          [Date |-> start_date + k - 1,
                           Count |-> successes(d0, habit_name, start_date + k - 1)]]]

\* --------------------------------------------------------- load and save
ToMood(x) == IF x \in Int THEN x ELSE UNSELECTED_MOOD_KEY

\* The columns of the worksheet: those of its rows; a worksheet without rows has
\* the header that conn.write gave it.
Columns(s) == IF s = << >> THEN REQUIRED_COLUMNS ELSE DOMAIN s[1]

\* One row of the frame load_data returns when conn.read succeeded: Date is
\* already a string, Mood is coerced to an integer, and a column the worksheet
\* lacks is filled with '' (df[col] = '').  In Is_Active the '' is written FALSE:
\* it is not True, and df['Is_Active'] == True is all the program asks of it.
fill_missing(r) ==
  Row(r.Date, r.Habit, r.Status,
      IF "Is_Active" \in DOMAIN r THEN r.Is_Active ELSE FALSE,
      IF "Daily_Reflection" \in DOMAIN r THEN r.Daily_Reflection ELSE "",
      ToMood(r.Mood))

ReadSheet(s) == [i \in DOMAIN s |-> fill_missing(s[i])]

NoCache == [valid |-> FALSE, data |-> EmptyLog, degraded |-> FALSE]
Cached(d0, degraded) == [valid |-> TRUE, data |-> d0, degraded |-> degraded]

\* The except branch of load_data: pd.DataFrame(columns=REQUIRED_COLUMNS),
\* returned, and so cached, like any other frame, together with the st.error.
degraded_load ==
  [df |-> EmptyLog, columns |-> REQUIRED_COLUMNS, cache |-> Cached(EmptyLog, TRUE),
   degraded |-> TRUE]

\* Faulty variant of load_data: without the except branch a read that raises
\* ends the script run, and no frame is returned.
load_data_Raises ==
  IF cache.valid
  THEN {[df |-> cache.data, columns |-> REQUIRED_COLUMNS, cache |-> cache,
         degraded |-> cache.degraded]}
  ELSE IF "Mood" \in Columns(sheet)
       THEN {[df |-> ReadSheet(sheet),
              columns |-> Columns(sheet) \cup (REQUIRED_COLUMNS \ Columns(sheet)),
              cache |-> Cached(ReadSheet(sheet), FALSE), degraded |-> FALSE]}
       ELSE {}

\* load_data under st.cache_data(ttl=5): a hit returns the cached frame, which
\* an earlier call returned with all the required columns.  A miss reads the
\* sheet; df['Mood'] raises when the sheet has no Mood column, and then, as when
\* conn.read itself raises, the except branch returns the empty frame.
load_data ==
  IF cache.valid
  THEN {[df |-> cache.data, columns |-> REQUIRED_COLUMNS, cache |-> cache,
         degraded |-> cache.degraded]}
  ELSE (IF "Mood" \in Columns(sheet)
        THEN {[df |-> ReadSheet(sheet),
               columns |-> Columns(sheet) \cup (REQUIRED_COLUMNS \ Columns(sheet)),
               cache |-> Cached(ReadSheet(sheet), FALSE), degraded |-> FALSE]}
        ELSE {}) \cup {degraded_load}

\* Faulty variant of save_data: the sheet is written but st.cache_data.clear()
\* is not called, so the frame cached by this run's load_data stays.
save_data_KeepCache(d1, ld, ok) ==
  IF ok THEN sheet' = d1 /\ cache' = ld.cache
  ELSE sheet' = sheet /\ cache' = ld.cache

\* save_data: conn.write replaces the sheet and the cache is cleared; when the
\* write raises, neither happens.
save_data(d1, ld, ok) ==
  IF ok THEN sheet' = d1 /\ cache' = NoCache
  ELSE sheet' = sheet /\ cache' = ld.cache

\* The tail of every handler that changes the frame: save_data(df), st.rerun().
\* `outcome` is what `last` shows when the write went through.
Commit(ld, d1, ok, outcome) ==
  /\ today' = today
  /\ save_data(d1, ld, ok)
  /\ last' = IF ok THEN outcome ELSE "failed"

\* A script run that reaches no save_data call.
NoWrite(ld, outcome) ==
  /\ today' = today
  /\ sheet' = sheet
  /\ cache' = ld.cache
  /\ last' = outcome

Init ==
  /\ sheet = EmptyLog
  /\ cache = NoCache
  /\ today = 0
  /\ last = "none"

\* The log written by a step stays within the bound of the model.
Fits == Len(sheet') <= MaxRows

\* ------------------------------------------------------------- handlers
\* "Add Habit" button.
new_row(new_habit, td) == Row(td, new_habit, FALSE, TRUE, "", UNSELECTED_MOOD_KEY)

\* Faulty variant of AddHabitAccepted: the name is looked up among the active
\* habits only, so the name of an archived habit is accepted again.
AddHabitAccepted_ActiveOnly(d0, new_habit) ==
  new_habit # "" /\ new_habit \notin Elems(get_active_habits(d0))

AddHabitAccepted(d0, new_habit) ==
  new_habit # "" /\ new_habit \notin Elems(get_all_habits(d0))

AddHabitStep(ld, new_habit, ok) ==
  IF AddHabitAccepted(ld.df, new_habit)
  THEN Commit(ld, Append(ld.df, new_row(new_habit, today)), ok, "saved")
  ELSE /\ ok
       /\ NoWrite(ld, "rejected")

AddHabit ==
  \E ld \in load_data, new_habit \in HabitInputs, ok \in BOOLEAN :
    /\ AddHabitStep(ld, new_habit, ok)
    /\ Fits

\* Archive / Activate buttons: habit_to_manage comes from the selectbox over
\* get_all_habits(df).
SetIsActive(d0, habit_to_manage, active) ==
  [i \in DOMAIN d0 |->
     IF d0[i].Habit = habit_to_manage THEN [d0[i] EXCEPT !.Is_Active = active] ELSE d0[i]]

ArchiveHabitStep(ld, habit_to_manage, ok) ==
  /\ habit_to_manage \in Elems(get_all_habits(ld.df))
  /\ Commit(ld, SetIsActive(ld.df, habit_to_manage, FALSE), ok, "saved")

ArchiveHabit ==
  \E ld \in load_data, ok \in BOOLEAN :
    \E habit_to_manage \in Elems(get_all_habits(ld.df)) :
      ArchiveHabitStep(ld, habit_to_manage, ok)

ActivateHabitStep(ld, habit_to_manage, ok) ==
  /\ habit_to_manage \in Elems(get_all_habits(ld.df))
  /\ Commit(ld, SetIsActive(ld.df, habit_to_manage, TRUE), ok, "saved")

ActivateHabit ==
  \E ld \in load_data, ok \in BOOLEAN :
    \E habit_to_manage \in Elems(get_all_habits(ld.df)) :
      ActivateHabitStep(ld, habit_to_manage, ok)

\* "PERMANENTLY DELETE" button.
\* Faulty variant of KeepRow: completed rows of the deleted habit are kept.
KeepRow_Completed(r, habit_to_manage) ==
  r.Habit # habit_to_manage \/ r.Status = TRUE

KeepRow(r, habit_to_manage) == r.Habit # habit_to_manage

RECURSIVE DeleteRows(_, _)
DeleteRows(d0, habit_to_manage) ==
  IF d0 = << >> THEN << >>
  ELSE LET n == Len(d0)
           front == DeleteRows(SubSeq(d0, 1, n - 1), habit_to_manage)
       IN IF KeepRow(d0[n], habit_to_manage) THEN Append(front, d0[n]) ELSE front

DeleteHabitStep(ld, habit_to_manage, ok) ==
  /\ habit_to_manage \in Elems(get_all_habits(ld.df))
  /\ Commit(ld, DeleteRows(ld.df, habit_to_manage), ok, "deleted")

DeleteHabit ==
  \E ld \in load_data, ok \in BOOLEAN :
    \E habit_to_manage \in Elems(get_all_habits(ld.df)) :
      DeleteHabitStep(ld, habit_to_manage, ok)

\* Daily log checkbox of one active habit on the selected date.
mask(d0, str_date, habit) ==
  {i \in DOMAIN d0 : d0[i].Date = str_date /\ d0[i].Habit = habit}

FirstOf(S) == CHOOSE i \in S : \A j \in S : i <= j

is_checked(d0, str_date, habit) ==
  IF mask(d0, str_date, habit) = {} THEN FALSE
  ELSE d0[FirstOf(mask(d0, str_date, habit))].Status

new_entry(str_date, habit, clicked) ==
  Row(str_date, habit, clicked, TRUE, "", UNSELECTED_MOOD_KEY)

\* Faulty variant of UpsertStatus: an existing row is replaced by a fresh entry,
\* which drops its reflection and mood.
UpsertStatus_Replace(d0, str_date, habit, clicked) ==
  IF mask(d0, str_date, habit) = {}
  THEN Append(d0, new_entry(str_date, habit, clicked))
  ELSE [i \in DOMAIN d0 |->
          IF i \in mask(d0, str_date, habit) THEN new_entry(str_date, habit, clicked)
          ELSE d0[i]]

\* Faulty variant of UpsertStatus: a row is appended whether or not the key exists.
UpsertStatus_AlwaysAppend(d0, str_date, habit, clicked) ==
  Append(d0, new_entry(str_date, habit, clicked))

UpsertStatus(d0, str_date, habit, clicked) ==
  IF mask(d0, str_date, habit) = {}
  THEN Append(d0, new_entry(str_date, habit, clicked))
  ELSE [i \in DOMAIN d0 |->
          IF i \in mask(d0, str_date, habit) THEN [d0[i] EXCEPT !.Status = clicked]
          ELSE d0[i]]

ToggleDoneStep(ld, str_date, habit, clicked, ok) ==
  /\ habit \in Elems(get_active_habits(ld.df))
  /\ clicked # is_checked(ld.df, str_date, habit)
  /\ Commit(ld, UpsertStatus(ld.df, str_date, habit, clicked), ok, "saved")

ToggleDone ==
  \E ld \in load_data, str_date \in Dates, clicked \in BOOLEAN, ok \in BOOLEAN :
    \E habit \in Elems(get_active_habits(ld.df)) :
      /\ ToggleDoneStep(ld, str_date, habit, clicked, ok)
      /\ Fits

\* Mood selectbox.
current_mood_mask(d0, str_date) ==
  {i \in DOMAIN d0 : d0[i].Date = str_date /\ d0[i].Mood # UNSELECTED_MOOD_KEY}

current_mood_value(d0, str_date) ==
  IF current_mood_mask(d0, str_date) = {} THEN UNSELECTED_MOOD_KEY
  ELSE d0[FirstOf(current_mood_mask(d0, str_date))].Mood

DateRows(d0, str_date) == {i \in DOMAIN d0 : d0[i].Date = str_date}

\* Faulty variant of mood_entry: the sentinel row is created active.
mood_entry_Active(str_date, selected_mood_value) ==
  Row(str_date, MoodEntry, FALSE, TRUE, "", selected_mood_value)

mood_entry(str_date, selected_mood_value) ==
  Row(str_date, MoodEntry, FALSE, FALSE, "", selected_mood_value)

\* Faulty variant of UpdateMood: the mood is written to the first row of the
\* date only.
UpdateMood_FirstRowOnly(d0, str_date, selected_mood_value) ==
  IF DateRows(d0, str_date) = {}
  THEN Append(d0, mood_entry(str_date, selected_mood_value))
  ELSE [d0 EXCEPT ![FirstOf(DateRows(d0, str_date))].Mood = selected_mood_value]

UpdateMood(d0, str_date, selected_mood_value) ==
  LET written == [i \in DOMAIN d0 |->
                    IF d0[i].Date = str_date
                    THEN [d0[i] EXCEPT !.Mood = selected_mood_value] ELSE d0[i]]
  IN IF DateRows(written, str_date) = {}
     THEN Append(written, mood_entry(str_date, selected_mood_value))
     ELSE written

SelectMoodStep(ld, str_date, selected_mood_value, ok) ==
  /\ selected_mood_value # current_mood_value(ld.df, str_date)
  /\ Commit(ld, UpdateMood(ld.df, str_date, selected_mood_value), ok, "saved")

SelectMood ==
  \E ld \in load_data, str_date \in Dates, selected_mood_value \in MoodKeys,
     ok \in BOOLEAN :
    /\ SelectMoodStep(ld, str_date, selected_mood_value, ok)
    /\ Fits

\* Reflection text area.
current_reflection(d0, str_date) ==
  IF DateRows(d0, str_date) = {} THEN ""
  ELSE d0[FirstOf(DateRows(d0, str_date))].Daily_Reflection

UpdateReflection(d0, str_date, reflection_input) ==
  [i \in DOMAIN d0 |->
     IF d0[i].Date = str_date
     THEN [d0[i] EXCEPT !.Daily_Reflection = reflection_input] ELSE d0[i]]

\* Variant of EditReflectionStep in which a reflection on a date without rows
\* is saved on a sentinel row.
EditReflectionStep_Sentinel(ld, str_date, reflection_input, ok) ==
  /\ reflection_input # current_reflection(ld.df, str_date)
  /\ IF DateRows(ld.df, str_date) # {}
     THEN Commit(ld, UpdateReflection(ld.df, str_date, reflection_input), ok, "saved")
     ELSE Commit(ld, Append(ld.df, Row(str_date, MoodEntry, FALSE, FALSE,
                                       reflection_input, UNSELECTED_MOOD_KEY)),
                 ok, "saved")

EditReflectionStep(ld, str_date, reflection_input, ok) ==
  /\ reflection_input # current_reflection(ld.df, str_date)
  /\ IF DateRows(ld.df, str_date) # {}
     THEN Commit(ld, UpdateReflection(ld.df, str_date, reflection_input), ok, "saved")
     ELSE /\ ok
          /\ NoWrite(ld, "unsaved")

EditReflection ==
  \E ld \in load_data, str_date \in Dates, reflection_input \in Texts,
     ok \in BOOLEAN :
    EditReflectionStep(ld, str_date, reflection_input, ok)

\* A script run in which no handler fires.
ViewPage ==
  \E ld \in load_data : NoWrite(ld, "none")

\* The cache entry of load_data outlives its ttl.
CacheExpire ==
  /\ cache.valid
  /\ cache' = NoCache
  /\ last' = "none"
  /\ UNCHANGED <<sheet, today>>

\* date.today() moves to the next calendar day.
Midnight(last_day) ==
  /\ today < last_day
  /\ today' = today + 1
  /\ last' = "none"
  /\ UNCHANGED <<sheet, cache>>

AdvanceDay == Midnight(MaxDay)

\* ------------------------------------------------ the streak of one habit
\* One habit followed over a longer calendar: only the handlers that create and
\* toggle its rows are used, on any date of that calendar.
StreakHabit == "Run"
StreakDates == 0..MaxStreakDay

StreakAdd ==
  \E ld \in load_data, ok \in BOOLEAN : AddHabitStep(ld, StreakHabit, ok)

StreakToggle ==
  \E ld \in load_data, str_date \in StreakDates, clicked \in BOOLEAN, ok \in BOOLEAN :
    ToggleDoneStep(ld, str_date, StreakHabit, clicked, ok)

StreakMidnight == Midnight(MaxStreakDay)

StreakNext ==
  \/ StreakAdd
  \/ StreakToggle
  \/ StreakMidnight
  \/ CacheExpire

StreakSpec == Init /\ [][StreakNext]_vars

\* ------------------------------------------------ the badge of one habit
\* One habit with a run of completed days that ends yesterday, of any length up
\* to the calendar's, as ticking the habit day after day leaves it; today's
\* checkbox is then ticked and unticked.  The leaderboard shows
\* get_badge(calculate_streak(df, h)).
RunLog(k) ==
  [i \in 1..k |-> Row(MaxBadgeDay - k + i - 1, StreakHabit, TRUE, TRUE, "",
                      UNSELECTED_MOOD_KEY)]

BadgeInit ==
  /\ sheet \in {RunLog(k) : k \in 0..MaxBadgeDay}
  /\ cache = NoCache
  /\ today = MaxBadgeDay
  /\ last = "none"

BadgeToggle ==
  \E ld \in load_data, clicked \in BOOLEAN, ok \in BOOLEAN :
    ToggleDoneStep(ld, today, StreakHabit, clicked, ok)

BadgeNext ==
  \/ StreakAdd
  \/ BadgeToggle
  \/ CacheExpire

BadgeSpec == BadgeInit /\ [][BadgeNext]_vars

\* ------------------------------------------- worksheets of an older schema
\* A worksheet written before the Is_Active, Daily_Reflection or Mood column
\* existed: a log of one habit over the calendar, without some of these columns.
\* It is only loaded here (a script run without a handler, the cache expiring).
OptionalColumns == {"Is_Active", "Daily_Reflection", "Mood"}

LegacyRows(d) ==
  {Row(d, StreakHabit, s, TRUE, t, m) : s \in BOOLEAN, t \in Texts, m \in MoodKeys}

LegacyLogs ==
  {<<r>> : r \in UNION {LegacyRows(d) : d \in Dates}}
    \cup {<<r1, r2>> : r1 \in LegacyRows(0), r2 \in LegacyRows(1)}

WithColumns(s, cols) == [i \in DOMAIN s |-> [c \in cols |-> s[i][c]]]

LegacyInit ==
  /\ \E log \in LegacyLogs, kept \in (SUBSET OptionalColumns) \ {OptionalColumns} :
       sheet = WithColumns(log, (REQUIRED_COLUMNS \ OptionalColumns) \cup kept)
  /\ cache = NoCache
  /\ today = 0
  /\ last = "none"

LegacyNext ==
  \/ ViewPage
  \/ CacheExpire

LegacySpec == LegacyInit /\ [][LegacyNext]_vars

Next ==
  \/ AddHabit
  \/ ArchiveHabit
  \/ ActivateHabit
  \/ DeleteHabit
  \/ ToggleDone
  \/ SelectMood
  \/ EditReflection
  \/ ViewPage
  \/ CacheExpire
  \/ AdvanceDay

Spec == Init /\ [][Next]_vars

\* ================================================================ claims
Names == HabitInputs \ {""}

SameKey(r1, r2) == r1.Date = r2.Date /\ r1.Habit = r2.Habit

UniqueKeys(d0) ==
  \A i, j \in DOMAIN d0 : i # j => ~SameKey(d0[i], d0[j])

\* C1: starting from the empty log, after any sequence of add_habit,
\* upsert_status, set_day_field, set_habit_active and delete_habit, neither the
\* persisted log nor the frame a script run loads holds two rows with the same
\* (date, habit_name) key.
C1_NoDuplicateKeys == UniqueKeys(sheet) /\ UniqueKeys(cache.data)

\* C1 witness: a persisted log of several rows on which the checkbox handler
\* (a completed row) and the mood handler (a non-zero mood) have both acted.
C1_Witness ==
  /\ Len(sheet) >= 2
  /\ last = "saved"
  /\ \E i \in DOMAIN sheet : sheet[i].Status = TRUE
  /\ \E i \in DOMAIN sheet : sheet[i].Mood # UNSELECTED_MOOD_KEY

\* C2: a mood or reflection written on a date that has at least one row is, in
\* the log the handler saves, the value of that field on every row of the date.
C2_Broadcast ==
  [][last' = "saved" => \A ld \in load_data, d \in Dates :
       /\ \A v \in MoodKeys :
            (SelectMoodStep(ld, d, v, TRUE) /\ DateRows(ld.df, d) # {})
              => /\ DateRows(sheet', d) = DateRows(ld.df, d)
                 /\ \A i \in DateRows(sheet', d) : sheet'[i].Mood = v
       /\ \A t \in Texts :
            (EditReflectionStep(ld, d, t, TRUE) /\ DateRows(ld.df, d) # {})
              => /\ DateRows(sheet', d) = DateRows(ld.df, d)
                 /\ \A i \in DateRows(sheet', d) : sheet'[i].Daily_Reflection = t]_vars

\* C2 witness: a date with two rows that both carry a non-zero mood and a
\* non-empty reflection; new rows are created with neither, so both fields were
\* written while the two rows existed.
C2_Witness ==
  \E d \in Dates :
    /\ Cardinality(DateRows(sheet, d)) >= 2
    /\ \A i \in DateRows(sheet, d) :
         sheet[i].Mood # UNSELECTED_MOOD_KEY /\ sheet[i].Daily_Reflection # ""

\* C3 (as claimed): a row created on a date after the date's mood was set
\* inherits that mood, so all rows sharing a date carry the same mood.
C3_SameMoodPerDate ==
  \A i, j \in DOMAIN sheet :
    sheet[i].Date = sheet[j].Date => sheet[i].Mood = sheet[j].Mood

IsSentinel(r, d, v) ==
  /\ r.Date = d
  /\ r.Habit = MoodEntry
  /\ r.Status = FALSE
  /\ r.Is_Active = FALSE
  /\ r.Mood = v

\* C4: a mood chosen for a date without rows adds exactly one row, the sentinel
\* (placeholder habit, not completed, inactive, the chosen mood), after the rows
\* already there; a mood chosen for a date with rows adds no row.
C4_SentinelRow ==
  [][last' = "saved" => \A ld \in load_data, d \in Dates, v \in MoodKeys :
       SelectMoodStep(ld, d, v, TRUE)
         => IF DateRows(ld.df, d) = {}
            THEN /\ Len(sheet') = Len(ld.df) + 1
                 /\ SubSeq(sheet', 1, Len(ld.df)) = ld.df
                 /\ IsSentinel(sheet'[Len(sheet')], d, v)
            ELSE Len(sheet') = Len(ld.df)]_vars

\* C4 witness: the persisted log holds a sentinel row that is the only row of
\* its date, next to rows of other dates.
C4_Witness ==
  \E i \in DOMAIN sheet :
    /\ IsSentinel(sheet[i], sheet[i].Date, sheet[i].Mood)
    /\ sheet[i].Mood # UNSELECTED_MOOD_KEY
    /\ DateRows(sheet, sheet[i].Date) = {i}
    /\ Len(sheet) >= 2

DoneOn(d0, h, d) ==
  \E i \in DOMAIN d0 : d0[i].Habit = h /\ d0[i].Date = d /\ d0[i].Status = TRUE

\* The length of the maximal run of consecutive completed days that ends at e.
RunEndingAt(d0, h, e) ==
  CHOOSE k \in 0..(Len(d0) + 1) :
    /\ \A j \in 0..(k - 1) : DoneOn(d0, h, e - j)
    /\ ~DoneOn(d0, h, e - k)

StreakHabits == {StreakHabit, "Read"}

\* C6: the streak of a habit is the length of the maximal run of consecutive
\* completed days that ends today when today is completed and yesterday
\* otherwise; it is 0 when neither today nor yesterday is completed, when the
\* habit has no completed row, and when the habit is not in the log.
C6_StreakIsRun ==
  \A h \in StreakHabits :
    LET streak == calculate_streak(sheet, h, today)
    IN /\ DoneOn(sheet, h, today) => streak = RunEndingAt(sheet, h, today)
       /\ ~DoneOn(sheet, h, today) => streak = RunEndingAt(sheet, h, today - 1)
       /\ (~DoneOn(sheet, h, today) /\ ~DoneOn(sheet, h, today - 1)) => streak = 0
       /\ (\A d \in StreakDates : ~DoneOn(sheet, h, d)) => streak = 0
       /\ (\A i \in DOMAIN sheet : sheet[i].Habit # h) => streak = 0

\* C6 witness: completions on the three days before an unmarked today give a
\* streak of 3.
C6_Witness ==
  /\ ~DoneOn(sheet, StreakHabit, today)
  /\ \A d \in (today - 3)..(today - 1) : DoneOn(sheet, StreakHabit, d)
  /\ calculate_streak(sheet, StreakHabit, today) = 3

MarkedToday(h) ==
  \A ld \in load_data :
    ToggleDoneStep(ld, today, h, TRUE, TRUE)
      => /\ calculate_streak(sheet', h, today') = calculate_streak(ld.df, h, today) + 1
         /\ calculate_streak(sheet', h, today') >= 1

KeptWhileUnmarked(h) ==
  ~DoneOn(sheet', h, today')
    => calculate_streak(sheet', h, today') = RunEndingAt(sheet', h, today' - 1)

\* C7 (as claimed): marking today done makes the streak one more than it was;
\* while today is unmarked the streak is the run accrued through yesterday; and
\* when the day advances over an unmarked day the streak is 0.
C7_StreakPolicy ==
  [][\A h \in StreakHabits :
       /\ MarkedToday(h)
       /\ KeptWhileUnmarked(h)
       /\ (today' = today + 1 /\ ~DoneOn(sheet, h, today))
            => calculate_streak(sheet', h, today') = 0]_vars

\* C7 (amended): as claimed, except that when the day advances over an unmarked
\* day the streak is 0 only if the new today has no completed row; if the new
\* today was marked done ahead of time the streak is 1.
C7_StreakPolicyAmended ==
  [][\A h \in StreakHabits :
       /\ MarkedToday(h)
       /\ KeptWhileUnmarked(h)
       /\ (today' = today + 1 /\ ~DoneOn(sheet, h, today))
            => calculate_streak(sheet', h, today') =
                 IF DoneOn(sheet', h, today') THEN 1 ELSE 0]_vars

\* C7 witness: a day was skipped after a completed day, and today has just been
\* marked done, which starts a new streak of 1.
C7_Witness ==
  /\ last = "saved"
  /\ DoneOn(sheet, StreakHabit, today)
  /\ ~DoneOn(sheet, StreakHabit, today - 1)
  /\ DoneOn(sheet, StreakHabit, today - 2)
  /\ calculate_streak(sheet, StreakHabit, today) = 1

\* C8 (as claimed): all rows with the same habit name, the placeholder name of
\* sentinel rows included, carry the same is_active value.
C8_ActivePerHabit ==
  \A i, j \in DOMAIN sheet :
    sheet[i].Habit = sheet[j].Habit => sheet[i].Is_Active = sheet[j].Is_Active

\* C9: the log saved by delete_habit(h) holds no row of h, and all_habits of
\* it does not list h.
C9_DeleteComplete ==
  [][last' = "deleted" => \A ld \in load_data, h \in Names :
       DeleteHabitStep(ld, h, TRUE)
         => /\ \A i \in DOMAIN sheet' : sheet'[i].Habit # h
            /\ h \notin Elems(get_all_habits(ReadSheet(sheet')))]_vars

\* C9 witness: a delete has just been saved and rows of another habit remain.
C9_Witness == last = "deleted" /\ sheet # EmptyLog

\* C10 (as claimed): a persisted row is still in the persisted log after every
\* step that is not delete_habit of its habit.
C10_RowsPersist ==
  [][\A i \in DOMAIN sheet :
       \/ \E j \in DOMAIN sheet' : SameKey(sheet[i], sheet'[j])
       \/ \E ld \in load_data, ok \in BOOLEAN :
            DeleteHabitStep(ld, sheet[i].Habit, ok)]_vars
\* C11: right after a step whose save succeeded the cache of load_data holds no
\* entry, so the next load_data reads the sheet: every frame it returns from a
\* read that succeeds is exactly the log that was written, also within the ttl
\* of the load that preceded the save.
C11_ReadYourWrites ==
  last \in {"saved", "deleted"}
    => /\ ~cache.valid
       /\ \E ld \in load_data : ~ld.degraded
       /\ \A ld \in load_data : ~ld.degraded => ld.df = sheet

\* C11 witness: a save has just gone through on a log of two rows, the second
\* of which was written over a frame that the same run had loaded and cached.
C11_Witness ==
  /\ last = "saved"
  /\ Len(sheet) >= 2
  /\ ~cache.valid

\* C12: "Add Habit" with a name that is already a habit name of the loaded log,
\* active or archived, saves nothing and leaves the persisted log as it is; with
\* any other non-empty name it saves the loaded log followed by exactly one row
\* (today, name, not completed, active).
C12_AddHabit ==
  [][last' \in {"saved", "rejected"} => \A ld \in load_data, h \in Names :
       AddHabitStep(ld, h, TRUE)
         => IF \E i \in DOMAIN ld.df : ld.df[i].Habit = h
            THEN sheet' = sheet /\ last' = "rejected"
            ELSE /\ last' = "saved"
                 /\ Len(sheet') = Len(ld.df) + 1
                 /\ SubSeq(sheet', 1, Len(ld.df)) = ld.df
                 /\ LET r == sheet'[Len(sheet')]
                    IN /\ r.Date = today
                       /\ r.Habit = h
                       /\ r.Status = FALSE
                       /\ r.Is_Active = TRUE]_vars

\* C12 witness: "Add Habit" has just been refused while the log holds an
\* archived habit.
C12_Witness ==
  /\ last = "rejected"
  /\ \E i \in DOMAIN sheet : sheet[i].Habit = StreakHabit /\ sheet[i].Is_Active = FALSE

NoRepeats(s) == \A i, j \in DOMAIN s : i # j => s[i] # s[j]

\* C13 (as claimed): all_habits and active_habits list each habit once and never
\* list the placeholder name of a sentinel row, in particular in the log saved
\* when a mood is chosen for a date without rows.
C13_NoPlaceholder ==
  [][last' = "saved" => \A ld \in load_data, d \in Dates, v \in MoodKeys :
       (SelectMoodStep(ld, d, v, TRUE) /\ DateRows(ld.df, d) = {})
         => LET all == get_all_habits(ReadSheet(sheet'))
                active == get_active_habits(ReadSheet(sheet'))
            IN /\ NoRepeats(all)
               /\ NoRepeats(active)
               /\ MoodEntry \notin Elems(all)
               /\ MoodEntry \notin Elems(active)]_vars

\* C14 (as claimed): for every log, habit and window the consistency calendar
\* is a series of exactly window_days entries, one per consecutive date of the
\* window that ends today, each with the number of completed rows of the habit
\* on that date.
C14_DenseCalendar ==
  \A h \in Names, w \in 1..MaxWindow :
    LET cal == create_heatmap_plotly(ReadSheet(sheet), h, today, w)
    IN /\ cal.plotted
       /\ Len(cal.df_plot) = w
       /\ \A k \in 1..w :
            /\ cal.df_plot[k].Date = today - w + k
            /\ cal.df_plot[k].Count = successes(sheet, h, today - w + k)

\* The highest configured threshold at or below a streak of at least 1.
HighestThreshold(streak) ==
  CHOOSE t \in DOMAIN BADGE_TIERS :
    /\ t <= streak
    /\ \A u \in DOMAIN BADGE_TIERS : u <= streak => u <= t

\* The threshold a badge stands for, 0 for the no-streak label.
TierOf(badge) ==
  IF badge = <<NoStreak>> THEN 0
  ELSE CHOOSE t \in DOMAIN BADGE_TIERS : BADGE_TIERS[t] = badge[1]

LeaderboardStreak == calculate_streak(ReadSheet(sheet), StreakHabit, today)

\* C15: the badge of a streak of 0 is the no-streak label, which is no tier's
\* label; the badge of a streak of at least 1 carries the label of the highest
\* threshold at or below the streak and the streak count; the tier never
\* decreases as the streak grows and stays at the highest threshold from there on.
C15_Badge ==
  LET streak == LeaderboardStreak
      top == CHOOSE t \in DOMAIN BADGE_TIERS : \A u \in DOMAIN BADGE_TIERS : u <= t
  IN /\ streak = 0 => get_badge(streak) = <<NoStreak>>
     /\ \A t \in DOMAIN BADGE_TIERS : BADGE_TIERS[t] # NoStreak
     /\ streak >= 1 => get_badge(streak) = <<BADGE_TIERS[HighestThreshold(streak)], streak>>
     /\ \A lower \in 0..streak : TierOf(get_badge(lower)) <= TierOf(get_badge(streak))
     /\ streak >= top => TierOf(get_badge(streak)) = top

\* C15 witness: a run of more than 90 days that ends today, shown with the
\* label of the highest tier.
C15_Witness ==
  /\ LeaderboardStreak > 90
  /\ DoneOn(sheet, StreakHabit, today)
  /\ get_badge(LeaderboardStreak)[1] = "Gold Titan"

\* The rows of a worksheet with each missing optional column at its default.
Synthesized(s) ==
  [i \in DOMAIN s |->
     Row(s[i].Date, s[i].Habit, s[i].Status,
         IF "Is_Active" \in DOMAIN s[i] THEN s[i].Is_Active ELSE TRUE,
         IF "Daily_Reflection" \in DOMAIN s[i] THEN s[i].Daily_Reflection ELSE "",
         IF "Mood" \in DOMAIN s[i] THEN ToMood(s[i].Mood) ELSE UNSELECTED_MOOD_KEY)]

\* C16 (as claimed): loading a worksheet that lacks any of the Is_Active,
\* Daily_Reflection and Mood columns returns, when the read goes through, all
\* its rows with every missing column at its default (True, "", 0).
C16_LoadSynthesizes ==
  ~cache.valid
    => \E ld \in load_data :
         /\ ~ld.degraded
         /\ ld.columns = REQUIRED_COLUMNS
         /\ ld.df = Synthesized(sheet)

\* C17: load_data always returns a frame; when the read raises, the frame is
\* the empty log with the six required columns, and on it the catalogs are
\* empty, every streak is 0, every badge is the no-streak label and no heatmap
\* series is drawn.
C17_LoadNeverFails ==
  /\ load_data # {}
  /\ ~cache.valid => \E ld \in load_data : ld.degraded
  /\ \A ld \in load_data :
       ld.degraded
         => /\ ld.df = EmptyLog
            /\ ld.columns = REQUIRED_COLUMNS
            /\ get_all_habits(ld.df) = << >>
            /\ get_active_habits(ld.df) = << >>
            /\ \A h \in Names :
                 /\ calculate_streak(ld.df, h, today) = 0
                 /\ get_badge(calculate_streak(ld.df, h, today)) = <<NoStreak>>
                 /\ ~create_heatmap_plotly(ld.df, h, today, MaxWindow).plotted

\* C17 witness: a read of a sheet that holds rows has failed, and the empty
\* frame it degraded to is the one script runs now get.
C17_Witness ==
  /\ cache.valid
  /\ cache.degraded
  /\ sheet # EmptyLog
  /\ \A ld \in load_data : ld.df = EmptyLog

\* The mood read back for date d is the same on d1 as on d0, when d0 has one.
MoodKept(d0, d1, d) ==
  current_mood_value(d0, d) # UNSELECTED_MOOD_KEY
    => current_mood_value(d1, d) = current_mood_value(d0, d)

\* C18 (as claimed): the non-zero mood read back for a date is still read back
\* from the log saved by any add, archive, activate, checkbox or delete step;
\* delete is taken for habits other than the placeholder, and every step on a
\* frame that a successful read loaded.
C18_MoodPersists ==
  [][last' \in {"saved", "deleted"} =>
       \A ld \in load_data, d \in Dates, h \in Names :
         ~ld.degraded
           => /\ AddHabitStep(ld, h, TRUE) => MoodKept(ld.df, sheet', d)
              /\ ArchiveHabitStep(ld, h, TRUE) => MoodKept(ld.df, sheet', d)
              /\ ActivateHabitStep(ld, h, TRUE) => MoodKept(ld.df, sheet', d)
              /\ \A str_date \in Dates, clicked \in BOOLEAN :
                   ToggleDoneStep(ld, str_date, h, clicked, TRUE)
                     => MoodKept(ld.df, sheet', d)
              /\ (h # MoodEntry /\ DeleteHabitStep(ld, h, TRUE))
                   => MoodKept(ld.df, sheet', d)]_vars

\* C19: the log saved by the checkbox handler differs from the loaded frame in
\* the target observation only.  If a row (date, habit) exists, the log has the
\* same rows in the same order and the row keeps its key, Is_Active, reflection
\* and mood, with Status as clicked; otherwise the log is the loaded frame
\* followed by exactly one row, of that key and Status.  All other rows are as
\* they were.
C19_UpsertFrame ==
  [][last' = "saved" =>
       \A ld \in load_data, str_date \in Dates, h \in Names, clicked \in BOOLEAN :
         ToggleDoneStep(ld, str_date, h, clicked, TRUE)
           => LET target == {i \in DOMAIN ld.df :
                               ld.df[i].Date = str_date /\ ld.df[i].Habit = h}
              IN IF target # {}
                 THEN /\ Len(sheet') = Len(ld.df)
                      /\ \A i \in DOMAIN ld.df \ target : sheet'[i] = ld.df[i]
                      /\ \A i \in target :
                           /\ sheet'[i].Date = str_date
                           /\ sheet'[i].Habit = h
                           /\ sheet'[i].Status = clicked
                           /\ sheet'[i].Is_Active = ld.df[i].Is_Active
                           /\ sheet'[i].Daily_Reflection = ld.df[i].Daily_Reflection
                           /\ sheet'[i].Mood = ld.df[i].Mood
                 ELSE /\ Len(sheet') = Len(ld.df) + 1
                      /\ SubSeq(sheet', 1, Len(ld.df)) = ld.df
                      /\ sheet'[Len(sheet')].Date = str_date
                      /\ sheet'[Len(sheet')].Habit = h
                      /\ sheet'[Len(sheet')].Status = clicked]_vars

\* C19 witness: a log of several rows has just been saved in which a completed
\* habit row carries a mood and a reflection.
C19_Witness ==
  /\ last = "saved"
  /\ Len(sheet) >= 2
  /\ \E i \in DOMAIN sheet :
       /\ sheet[i].Habit = StreakHabit
       /\ sheet[i].Status = TRUE
       /\ sheet[i].Mood # UNSELECTED_MOOD_KEY
       /\ sheet[i].Daily_Reflection # ""
====
